---------------------------- MODULE Spec2Model ----------------------------
(***************************************************************************)
(* Model of the incremental crawl-and-ingest pipeline of                   *)
(* src/dice_search_scraper.py (DougOz/AIJobFinder).                        *)
(*                                                                         *)
(* Spec models run_multiple_searches driving main_scraper_orchestrator     *)
(* from line 128 on, i.e. with job_collection bound to a live collection   *)
(* whose 'url' field carries the unique index of                           *)
(* src/load_jobs_to_mongodb.py:69.  The connection set-up of lines 122-126 *)
(* is modelled by SpecStartup, from the call of run_multiple_searches to   *)
(* line 129.                                                               *)
(* SpecCollect is the part of Spec up to the return of                     *)
(* get_unique_job_links; SpecPlan applies the partition of lines 139-148   *)
(* to every list and every collection; SpecFetch is one run from line 139  *)
(* to its end; SpecCrash is SpecFetch with the process killed once and     *)
(* started again; SpecTag calls update_job_search_tag twice on every       *)
(* document; SpecStore makes every sequence of insert_new_job and          *)
(* update_job_search_tag calls; SpecRace interleaves two runs that have    *)
(* collected the same new identifier.                                      *)
(* SpecRun is one whole run from page discovery on, over any store;        *)
(* SpecRefetch is SpecFetch over documents that already carry a token.     *)
(* SpecUrl calls build_dice_url (src/build_dice_url.py), SpecFile calls    *)
(* get_unique_filename (src/file_utilities.py) and SpecScore runs the loop *)
(* of score_jobs_against_resume (src/resume_match_scorer.py).              *)
(*                                                                         *)
(* One action is one I/O step of the code: a page load, a Store call, a    *)
(* detail fetch.  What the outside world answers (the page markup, a       *)
(* time-out, a Store error) is drawn with \E at the step that asks.        *)
(* Variables whose name starts with h_ are history variables: they record  *)
(* what happened and are never read by the modelled code.                  *)
(***************************************************************************)
EXTENDS Integers, Sequences, FiniteSets, TLC

\* ---------------------------------------------------------------- bounds
MaxIds == 3        \* identifiers (job-detail URLs) the source can show
MaxTokens == 2     \* distinct query tokens
MaxRuns == 2       \* length of search_urls
MaxPages == 2      \* largest page count the indicator announces
MaxLinks == 2      \* detail-link elements on one result page
MaxLabelLen == 3   \* characters of the aria-label after "Page 1 of"
MaxDigit == 2      \* largest digit character used in a label
MaxBatch == 2      \* the batch size a bounded-loss statement is read with
MaxTextLen == 2    \* characters of a search text
MaxLocLen == 1     \* characters of a location
MaxNameLen == 3    \* characters of a base filename
MaxSuffix == 2     \* numbered variants of a filename that may exist
MaxJobs == 2       \* documents loaded by the scorer
MaxInterval == 2   \* largest checkpoint_interval

\* ------------------------------------------------------------- constants
ProgressInterval == 50     \* the modulus of the progress message

Ids == 1..MaxIds
Tokens == 1..MaxTokens

\* A href attribute: id = 0 is a missing or empty href; detail says whether
\* the text contains '/job-detail/'.
NoHref == [detail |-> FALSE, id |-> 0]
Hrefs == {NoHref} \cup [detail : BOOLEAN, id : Ids]

\* All sequences over S of length at most n.
SeqsUpTo(S, n) == UNION {[1..m -> S] : m \in 0..n}

\* ------------------------------------------------------- get_total_pages
DigitStr == <<"0", "1", "2", "3", "4", "5", "6", "7", "8", "9">>
IsDigit(c) == \E d \in 1..10 : DigitStr[d] = c
DigitVal(c) == (CHOOSE d \in 1..10 : DigitStr[d] = c) - 1

\* The characters a label tail is drawn from: a space, a non-digit, digits.
LabelChars == {" ", "x"} \cup {DigitStr[d + 1] : d \in 0..MaxDigit}
Labels == SeqsUpTo(LabelChars, MaxLabelLen)

\* The longest run of digits at the head of s: what (\d+) consumes.
RECURSIVE DigitRun(_)
DigitRun(s) ==
  IF s = <<>> \/ ~IsDigit(Head(s)) THEN <<>>
  ELSE <<Head(s)>> \o DigitRun(Tail(s))

\* int() of a digit string.
RECURSIVE IntOf(_)
IntOf(ds) ==
  IF ds = <<>> THEN 0
  ELSE 10 * IntOf(SubSeq(ds, 1, Len(ds) - 1)) + DigitVal(ds[Len(ds)])

\* re.search(r'Page 1 of (\d+)', "Page 1 of" + tail): the locator has
\* matched the prefix "Page 1 of", the pattern wants one space and digits.
PageMatch(tail) ==
  IF tail # <<>> /\ Head(tail) = " " /\ DigitRun(Tail(tail)) # <<>>
  THEN [matched |-> TRUE, group1 |-> DigitRun(Tail(tail))]
  ELSE [matched |-> FALSE, group1 |-> <<>>]

\* What the first results page answers.
DiscoverOutcomes ==
  {[kind |-> "load_error", tail |-> <<>>],
   [kind |-> "no_indicator", tail |-> <<>>]}
  \cup {[kind |-> "label", tail |-> t] : t \in Labels}

\* get_total_pages: the value returned and the message printed.
get_total_pages(o) ==
  IF o.kind # "label"
  THEN [pages |-> 1, log |-> "could_not_determine"]
  ELSE LET match == PageMatch(o.tail)
       IN [pages |-> IF match.matched THEN IntOf(match.group1) ELSE 1,
           log |-> "total_found"]


\* ------------------------------------------------------------------ state
VARIABLES
  search_urls,      \* run_multiple_searches: the list of searches, each
                    \* identified by the query token of its URL
  run,              \* position of the for loop over search_urls
  search_string,    \* the query token of the current run
  pc,               \* position inside main_scraper_orchestrator
  total_pages,      \* result of get_total_pages
  h_discover,       \* what the first results page answered
  h_log,            \* the message get_total_pages printed
  i,                \* get_unique_job_links: the page index of the for loop
  all_job_links_set,\* get_unique_job_links: the set all_job_links
  links_left,       \* get_unique_job_links: link elements still to read
  slept,            \* whether asyncio.sleep ran since the last page load
  h_attempted,      \* page indices loaded, in order
  h_failedPages,    \* page indices whose try block raised
  h_page,           \* detail identifiers read on the page being loaded
  h_pagesOk,        \* detail identifiers of the pages that loaded whole
  h_seen,           \* detail identifiers read on any page
  h_repeat,         \* a detail identifier was read that an earlier page,
                    \* loaded whole, had shown
  h_rushed,         \* a page load started with no delay after the last one
  all_job_links,    \* orchestrator: the list get_unique_job_links returned
  existing_urls,    \* orchestrator: the known-identifier snapshot
  links_to_scrape,  \* orchestrator: list of new identifiers
  links_to_update,  \* orchestrator: list of known identifiers
  j,                \* position of the tag loop (1-based)
  n,                \* position of the fetch loop (1-based: enumerate's i + 1)
  scraped_count,    \* orchestrator: the success counter
  job_details,      \* identifier of the record being inserted, 0 for none
  h_iter,           \* what the last fetch-loop iteration did
  h_flushAt,        \* the Store writes of this run's fetch loop
  paced,            \* whether asyncio.sleep(1) ran since the last fetch
  h_unpaced,        \* a fetch started with no sleep after the fetch before
  h_fetched,        \* the identifiers scrape_dice_job was called with, in order
  store,            \* the collection: identifier -> document
  h_run,            \* this run: what was collected, what failed
  h_prev,           \* the previous run: what it collected, what failed
  t_url,            \* SpecTag: the url of the two calls
  t_ret,            \* SpecTag: the values the calls returned
  t_raised,         \* SpecTag: whether update_one raised, per call
  t_after1,         \* SpecTag: the collection after the first call
  db,               \* orchestrator: what connect_to_mongodb() returned
  job_collection,   \* orchestrator: db[COLLECTION_NAME]
  h_connect,        \* how connect_to_mongodb ended
  h_crash,          \* whether the process was killed and started again, and
                    \* the urls stored when it was killed
  r_id,             \* SpecRace: the identifier both runs collected
  r_pc,             \* SpecRace: where each run is
  r_known,          \* SpecRace: whether r_id is in each run's existing_urls
  r_how,            \* SpecRace: how each run's handling of r_id ended
  r_err,            \* SpecRace: whether a fetch, insert or tag update of
                    \* each run failed
  u_args,           \* SpecUrl: the arguments of build_dice_url
  u_alt,            \* SpecUrl: the same arguments, the work mode in another
                    \* case
  u_url,            \* SpecUrl: the URLs build_dice_url returned for the two
  u_tag,            \* SpecUrl: the search_string of line 129 for the two
  h_phases,         \* the phases of the run in the order they were entered
  f_base,           \* SpecFile: base_filename of get_unique_filename
  f_files,          \* the paths os.path.exists answers True for
  f_name,           \* name, ext = os.path.splitext(base_filename)
  f_ext,
  f_counter,        \* counter
  f_new,            \* new_filename
  f_ret,            \* the value returned
  s_jobs,           \* SpecScore: jobs_data, the dicts loaded at line 189
  s_docs,           \* the score fields of the documents in the collection
  s_interval,       \* checkpoint_interval
  s_i,              \* job_index
  s_needs,          \* needs_scoring of the current job
  s_calc,           \* jobs_calculated_in_this_run
  h_writes,         \* the urls update_one was issued for, in order
  h_scoreErr,       \* the job indexes whose scoring raised
  h_loaded          \* jobs_data as it was loaded

runVars == <<search_urls, run, search_string>>
discVars == <<total_pages, h_discover, h_log>>
collHist == <<h_attempted, h_failedPages, h_page, h_pagesOk, h_seen,
              h_repeat, h_rushed>>
collVars == <<i, all_job_links_set, links_left, slept, collHist>>
planVars == <<all_job_links, existing_urls, links_to_scrape, links_to_update>>
fetchVars == <<n, scraped_count, job_details, h_iter, h_flushAt, paced,
              h_unpaced, h_fetched>>
callVars == <<t_url, t_ret, t_raised, t_after1>>

startVars == <<db, job_collection, h_connect>>
raceVars == <<r_id, r_pc, r_known, r_how, r_err>>
urlVars == <<u_args, u_alt, u_url, u_tag>>
fileVars == <<f_base, f_files, f_name, f_ext, f_counter, f_new, f_ret>>
scoreVars == <<s_jobs, s_docs, s_interval, s_i, s_needs, s_calc, h_writes,
               h_scoreErr, h_loaded>>
pureVars == <<urlVars, fileVars, scoreVars>>

vars == <<runVars, pc, discVars, collVars, planVars, j, fetchVars, store,
          h_run, h_prev, callVars, startVars, h_crash, raceVars, pureVars, h_phases>>

NoDiscover == [kind |-> "none", tail |-> <<>>]
NoIter == [id |-> 0, before |-> 0, outcome |-> "none", printed |-> FALSE]
NoRun == [collected |-> {}, failed |-> {}, tagErr |-> {}, loadFailed |-> FALSE,
          insertErr |-> {}, stored |-> {}]
NoCrash == [crashed |-> FALSE, persisted |-> {}]

\* A document of the collection: present says whether a document with this
\* url exists; searches is its 'searches' array.
NoDoc == [present |-> FALSE, searches |-> <<>>]

\* search_string = search_url.split('?')[1]: a URL is identified here by the
\* query string after its '?'.
QueryOf(url) == url

\* ------------------------------------------------------------------- Init
\* The locals and the history as they are before a run has done anything.
FreshRun ==
  /\ total_pages = 0
  /\ h_discover = NoDiscover
  /\ h_log = "none"
  /\ i = 0
  /\ all_job_links_set = {}
  /\ links_left = 0
  /\ slept = FALSE
  /\ h_attempted = <<>>
  /\ h_failedPages = {}
  /\ h_page = {}
  /\ h_pagesOk = {}
  /\ h_seen = {}
  /\ h_repeat = FALSE
  /\ h_rushed = FALSE
  /\ all_job_links = <<>>
  /\ existing_urls = {}
  /\ links_to_scrape = <<>>
  /\ links_to_update = <<>>
  /\ j = 0
  /\ n = 0
  /\ scraped_count = 0
  /\ job_details = 0
  /\ h_iter = NoIter
  /\ h_flushAt = {}
  /\ paced = FALSE
  /\ h_unpaced = FALSE
  /\ h_fetched = <<>>
  /\ h_run = NoRun
  /\ h_phases = <<>>

\* Python values, by their type.
PyNone == [type |-> "NoneType", items |-> <<>>]
PyClient == [type |-> "MongoClient", items |-> <<>>]
PyDatabase == [type |-> "Database", items |-> <<>>]
PyCollection == [type |-> "Collection", items |-> <<>>]
PyTuple(a, b) == [type |-> "tuple", items |-> <<a, b>>]

\* The state line 128 is written for: the connection succeeded and
\* job_collection is the collection.
LiveCollection ==
  /\ db = PyDatabase
  /\ job_collection = PyCollection
  /\ h_connect = "ok"
  /\ h_crash = NoCrash

\* The two runs of SpecRace.
Procs == {1, 2}

NoRace ==
  /\ r_id = 0
  /\ r_pc = [p \in Procs |-> "idle"]
  /\ r_known = [p \in Procs |-> FALSE]
  /\ r_how = [p \in Procs |-> "none"]
  /\ r_err = [p \in Procs |-> FALSE]

\* An optional string argument: None, or a string as the sequence of its
\* characters.
PyStrNone == [none |-> TRUE, s |-> <<>>]
PyStr(chars) == [none |-> FALSE, s |-> chars]

NoUrl ==
  /\ u_args = <<>>
  /\ u_alt = <<>>
  /\ u_url = <<>>
  /\ u_tag = <<>>

NoFile ==
  /\ f_base = <<>>
  /\ f_files = {}
  /\ f_name = <<>>
  /\ f_ext = <<>>
  /\ f_counter = 0
  /\ f_new = <<>>
  /\ f_ret = <<>>

NoScore ==
  /\ s_jobs = <<>>
  /\ s_docs = <<>>
  /\ s_interval = 0
  /\ s_i = 0
  /\ s_needs = FALSE
  /\ s_calc = 0
  /\ h_writes = <<>>
  /\ h_scoreErr = {}
  /\ h_loaded = <<>>

NoPure == NoUrl /\ NoFile /\ NoScore

NoCalls ==
  /\ t_url = 0
  /\ t_ret = <<>>
  /\ t_raised = <<>>
  /\ t_after1 = [id \in Ids |-> NoDoc]

\* run_multiple_searches is entered with a list of one to MaxRuns searches
\* and an empty collection.
Init ==
  /\ search_urls \in UNION {[1..m -> Tokens] : m \in 1..MaxRuns}
  /\ run = 1
  /\ search_string = QueryOf(search_urls[1])
  /\ pc = "discover"
  /\ store = [id \in Ids |-> NoDoc]
  /\ h_prev = NoRun
  /\ FreshRun
  /\ NoCalls
  /\ LiveCollection
  /\ NoRace
  /\ NoPure

\* ---------------------------------------------------------- PageLister
\* total_pages = await get_total_pages(search_url)
GetTotalPages ==
  /\ pc = "discover"
  /\ \E o \in DiscoverOutcomes :
       LET r == get_total_pages(o) IN
       /\ r.pages <= MaxPages
       /\ total_pages' = r.pages
       /\ h_log' = r.log
       /\ h_discover' = o
  /\ pc' = "discovered"
  /\ h_phases' = Append(h_phases, "discover")
  /\ UNCHANGED <<runVars, collVars, planVars, j, fetchVars, store, h_run,
                 h_prev, callVars,
                 startVars, h_crash, raceVars, pureVars>>

\* --------------------------------------------------------- LinkCollector
\* if href and '/job-detail/' in href
Matches(href) == href.id # 0 /\ href.detail

\* Mutant: the set is replaced instead of extended.
AddLink_Overwrite(acc, href) == IF Matches(href) THEN {href.id} ELSE acc

\* all_job_links.add(href) under the test of line 101.
AddLink(acc, href) == IF Matches(href) THEN acc \cup {href.id} ELSE acc

\* Mutant: break instead of continue.
AfterFailure_Break(idx, total) == total + 1

\* The page index after a page that raised: except ...: continue.
AfterFailure(idx, total) == idx + 1

\* The page index after a page whose try block ran to its end.
AfterSuccess(idx) == idx + 1

\* all_job_links = set(); launch the browser
StartCollect ==
  /\ pc = "discovered"
  /\ pc' = "collect"
  /\ h_phases' = Append(h_phases, "collect")
  /\ i' = 1
  /\ all_job_links_set' = {}
  /\ h_discover' = NoDiscover
  /\ h_log' = "none"
  /\ UNCHANGED <<runVars, total_pages, links_left, slept, collHist, planVars,
                 j, fetchVars, store, h_run, h_prev, callVars,
                 startVars, h_crash, raceVars, pureVars>>

\* Head of one iteration of for i in range(1, total_pages + 1): goto,
\* wait_for_selector and locator(...).all(), which raise or give the link
\* elements of the page.
LoadPage ==
  /\ pc = "collect"
  /\ i <= total_pages
  /\ h_attempted' = Append(h_attempted, i)
  /\ h_rushed' = (h_rushed \/ (h_attempted # <<>> /\ ~slept))
  /\ slept' = FALSE
  /\ h_page' = {}
  /\ \/ \* raised: the page is skipped
        /\ i' = AfterFailure(i, total_pages)
        /\ h_failedPages' = h_failedPages \cup {i}
        /\ UNCHANGED <<pc, links_left>>
     \/ \* the page loaded and shows m link elements
        \E m \in 0..MaxLinks :
          /\ links_left' = m
          /\ pc' = "links"
          /\ UNCHANGED <<i, h_failedPages>>
  /\ UNCHANGED <<runVars, discVars, all_job_links_set, h_pagesOk, h_seen,
                 h_repeat, planVars, j, fetchVars, store, h_run, h_prev,
                 callVars,
                 startVars, h_crash, raceVars, pureVars, h_phases>>

\* One iteration of for link in links: get_attribute('href') raises, or
\* gives the href, which is added when it matches.
ReadLink ==
  /\ pc = "links"
  /\ links_left > 0
  /\ \/ \* raised: the rest of the page is skipped
        /\ pc' = "collect"
        /\ i' = AfterFailure(i, total_pages)
        /\ links_left' = 0
        /\ h_page' = {}
        /\ h_failedPages' = h_failedPages \cup {i}
        /\ UNCHANGED <<all_job_links_set, h_seen, h_repeat>>
     \/ \E href \in Hrefs :
          LET isDetail == href.detail /\ href.id \in Ids IN
          /\ all_job_links_set' = AddLink(all_job_links_set, href)
          /\ links_left' = links_left - 1
          /\ h_page' = IF isDetail THEN h_page \cup {href.id} ELSE h_page
          /\ h_seen' = IF isDetail THEN h_seen \cup {href.id} ELSE h_seen
          /\ h_repeat' = (h_repeat \/ (isDetail /\ href.id \in h_pagesOk))
          /\ UNCHANGED <<pc, i, h_failedPages>>
  /\ UNCHANGED <<runVars, discVars, slept, h_attempted, h_pagesOk, h_rushed,
                 planVars, j, fetchVars, store, h_run, h_prev, callVars,
                 startVars, h_crash, raceVars, pureVars, h_phases>>

\* await asyncio.sleep(delay_seconds), the last statement of the try block.
PageDone ==
  /\ pc = "links"
  /\ links_left = 0
  /\ slept' = TRUE
  /\ i' = AfterSuccess(i)
  /\ pc' = "collect"
  /\ h_pagesOk' = h_pagesOk \cup h_page
  /\ h_page' = {}
  /\ UNCHANGED <<runVars, discVars, all_job_links_set, links_left,
                 h_attempted, h_failedPages, h_seen, h_repeat, h_rushed,
                 planVars, j, fetchVars, store, h_run, h_prev, callVars,
                 startVars, h_crash, raceVars, pureVars, h_phases>>

\* All the orders list(all_job_links) can give.
ListsOf(S) ==
  {s \in [1..Cardinality(S) -> S] : \A a, b \in 1..Cardinality(S) :
                                       a # b => s[a] # s[b]}

\* await browser.close(); return list(all_job_links)
ReturnLinks ==
  /\ pc = "collect"
  /\ i > total_pages
  /\ all_job_links' \in ListsOf(all_job_links_set)
  /\ pc' = "collected"
  /\ UNCHANGED <<runVars, discVars, collVars, existing_urls, links_to_scrape,
                 links_to_update, j, fetchVars, store, h_run, h_prev,
                 callVars,
                 startVars, h_crash, raceVars, pureVars, h_phases>>

\* ------------------------------------------------------- Store functions
Range(s) == {s[x] : x \in DOMAIN s}

\* collection.distinct('url'), or set() when the call raised.
load_existing_urls_from_mongo(coll, raised) ==
  IF raised THEN {} ELSE {id \in Ids : coll[id].present}

\* Mutant: the update leaves the array as it is.
AddToSet_Noop(arr, v) == arr

\* Mutant: $push instead of $addToSet.
AddToSet_Push(arr, v) == Append(arr, v)

\* $addToSet on the 'searches' array.
AddToSet(arr, v) == IF v \in Range(arr) THEN arr ELSE Append(arr, v)

\* update_job_search_tag: the collection afterwards and the value returned
\* (modified_count, or 0 when update_one raised).
update_job_search_tag(coll, url, q, raised) ==
  IF raised \/ ~coll[url].present
  THEN [coll |-> coll, ret |-> 0]
  ELSE LET arr == AddToSet(coll[url].searches, q)
       IN [coll |-> [coll EXCEPT ![url].searches = arr],
           ret |-> IF arr = coll[url].searches THEN 0 ELSE 1]

\* Mutant: the record is kept for a later write and reported as stored.
insert_new_job_Buffered(coll, url, q, raised) ==
  [coll |-> coll, ret |-> 1, dup |-> FALSE]

\* Mutant: DuplicateKeyError is handled like any other error.
insert_new_job_NoFallback(coll, url, q, raised) ==
  [coll |-> IF raised \/ coll[url].present THEN coll
            ELSE [coll EXCEPT ![url] = [present |-> TRUE, searches |-> <<q>>]],
   ret |-> IF raised \/ coll[url].present THEN 0 ELSE 1,
   dup |-> FALSE]

\* Mutant: insert_one writes the document over the one that is there.
insert_new_job_Replace(coll, url, q, raised) ==
  IF raised THEN [coll |-> coll, ret |-> 0, dup |-> FALSE]
  ELSE [coll |-> [coll EXCEPT ![url] = [present |-> TRUE, searches |-> <<q>>]],
        ret |-> 1, dup |-> FALSE]

\* insert_new_job up to its except clauses: insert_one of a document with
\* searches = [search_string].  ret: 1 for True, 0 for False; dup says that
\* DuplicateKeyError was raised and the tag update is still to run.
insert_new_job(coll, url, q, raised) ==
  IF raised THEN [coll |-> coll, ret |-> 0, dup |-> FALSE]
  ELSE IF coll[url].present THEN [coll |-> coll, ret |-> 0, dup |-> TRUE]
  ELSE [coll |-> [coll EXCEPT ![url] = [present |-> TRUE, searches |-> <<q>>]],
        ret |-> 1, dup |-> FALSE]

\* ------------------------------------------------- ReconciliationPlanner
\* The for loop of lines 144-148 over the rest of all_job_links.
RECURSIVE PlanLoop(_, _, _, _)
PlanLoop(rest, existing, update, scrape) ==
  IF rest = <<>> THEN [update |-> update, scrape |-> scrape]
  ELSE IF Head(rest) \in existing
       THEN PlanLoop(Tail(rest), existing, Append(update, Head(rest)), scrape)
       ELSE PlanLoop(Tail(rest), existing, update, Append(scrape, Head(rest)))

\* Mutant: the else of line 147 is lost, every link is scraped.
Plan_NoElse(links, existing) ==
  [update |-> PlanLoop(links, existing, <<>>, <<>>).update, scrape |-> links]

Plan(links, existing) == PlanLoop(links, existing, <<>>, <<>>)

\* A loop body runs: the phase is entered unless the run is in it already.
EnterLoop(phases, phase) ==
  IF phases # <<>> /\ phases[Len(phases)] = phase THEN phases
  ELSE Append(phases, phase)

\* Mutant: the loop is left after its first iteration.
LoopDone_Early(idx, list) == idx > 1

\* A for loop over list has no item left at the 1-based position idx.
LoopDone(idx, list) == idx > Len(list)

\* existing_urls = load_existing_urls_from_mongo(job_collection), then the
\* partition loop.
LoadExistingAndPlan ==
  /\ pc = "collected"
  /\ \E raised \in BOOLEAN :
       LET known == load_existing_urls_from_mongo(store, raised)
           plan == Plan(all_job_links, known)
       IN /\ existing_urls' = known
          /\ links_to_update' = plan.update
          /\ links_to_scrape' = plan.scrape
          /\ h_run' = [h_run EXCEPT !.collected = Range(all_job_links),
                                    !.loadFailed = raised,
                                    !.stored = {id \in Ids : store[id].present}]
  /\ pc' = "tag"
  /\ h_phases' = h_phases \o <<"snapshot", "plan">>
  /\ j' = 1
  /\ h_attempted' = <<>>
  /\ h_failedPages' = {}
  /\ h_pagesOk' = {}
  /\ h_seen' = {}
  /\ h_repeat' = FALSE
  /\ h_rushed' = FALSE
  /\ UNCHANGED <<runVars, discVars, i, all_job_links_set, links_left, slept,
                 h_page, all_job_links, fetchVars, store, h_prev, callVars,
                 startVars, h_crash, raceVars, pureVars>>

\* One iteration of for link in links_to_update.
TagExisting ==
  /\ pc = "tag"
  /\ j <= Len(links_to_update)
  /\ \E raised \in BOOLEAN :
       LET r == update_job_search_tag(store, links_to_update[j],
                                      search_string, raised)
       IN /\ store' = r.coll
          /\ h_run' = IF raised
                      THEN [h_run EXCEPT !.tagErr = @ \cup {links_to_update[j]}]
                      ELSE h_run
  /\ j' = j + 1
  /\ h_phases' = EnterLoop(h_phases, "tag")
  /\ UNCHANGED <<runVars, pc, discVars, collVars, planVars, fetchVars,
                 h_prev, callVars,
                 startVars, h_crash, raceVars, pureVars>>

\* scraped_count = 0, entering the fetch loop.
StartFetch ==
  /\ pc = "tag"
  /\ LoopDone(j, links_to_update)
  /\ pc' = "fetch"
  /\ n' = 1
  /\ scraped_count' = 0
  /\ UNCHANGED <<runVars, discVars, collVars, planVars, j, job_details,
                 h_iter, h_flushAt, paced, h_unpaced, h_fetched, store, h_run,
                 h_prev, callVars,
                 startVars, h_crash, raceVars, pureVars, h_phases>>

\* Mutant: the counter ignores what insert_new_job returned.
CountAfter_Always(count, ret) == count + 1

\* if insert_new_job(...): scraped_count += 1
Truthy(ret) == ret # 0
CountAfter(count, ret) == IF Truthy(ret) THEN count + 1 ELSE count

\* if(scraped_count %50 == 0): the progress message
Progress(count) == count % ProgressInterval = 0

\* Mutant: the sleep is inside the if of line 162.
PaceAfter_OnlyFetched(outcome) == outcome # "fetch_failed"

\* await asyncio.sleep(1): the last statement of the loop body, under no
\* condition.
PaceAfter(outcome) == TRUE

\* The rest of a fetch-loop iteration once the insert has answered ret:
\* the counter, the progress message, the pacing sleep, the next index.
\* wrote says whether the Store was written in this iteration.
EndIteration(id, ret, outcome, wrote) ==
  /\ scraped_count' = CountAfter(scraped_count, ret)
  /\ n' = n + 1
  /\ job_details' = 0
  /\ pc' = "fetch"
  /\ h_iter' = [id |-> id, before |-> scraped_count, outcome |-> outcome,
                printed |-> Progress(CountAfter(scraped_count, ret))]
  /\ h_flushAt' = IF wrote
                  THEN h_flushAt \cup
                       {[count |-> CountAfter(scraped_count, ret), item |-> n]}
                  ELSE h_flushAt
  /\ paced' = PaceAfter(outcome)

\* Head of one iteration of for i, link in enumerate(links_to_scrape):
\* job_details = scrape_dice_job(link), which gives None or a record.
FetchNew ==
  /\ pc = "fetch"
  /\ n <= Len(links_to_scrape)
  /\ h_fetched' = Append(h_fetched, links_to_scrape[n])
  /\ h_phases' = EnterLoop(h_phases, "fetch")
  /\ h_unpaced' = (h_unpaced \/ (h_fetched # <<>> /\ ~paced))
  /\ LET link == links_to_scrape[n] IN
     \/ \* scrape_dice_job returned None
        /\ EndIteration(link, 0, "fetch_failed", FALSE)
        /\ h_run' = [h_run EXCEPT !.failed = @ \cup {link}]
     \/ \* scrape_dice_job returned a record
        /\ pc' = "insert"
        /\ job_details' = link
        /\ paced' = FALSE
        /\ h_iter' = [id |-> link, before |-> scraped_count,
                      outcome |-> "fetched", printed |-> FALSE]
        /\ UNCHANGED <<n, scraped_count, h_flushAt, h_run>>
  /\ UNCHANGED <<runVars, discVars, collVars, planVars, j, store, h_prev,
                 callVars, startVars, h_crash, raceVars, pureVars>>

\* if job_details: insert_new_job(job_collection, job_details,
\* search_string), up to the answer of insert_one.
InsertNew ==
  /\ pc = "insert"
  /\ \E raised \in BOOLEAN :
       LET link == job_details
           r == insert_new_job(store, link, search_string, raised)
       IN IF r.dup
          THEN /\ pc' = "dup"
               /\ h_iter' = [h_iter EXCEPT !.outcome = "dup"]
               /\ UNCHANGED <<store, n, scraped_count, job_details,
                              h_flushAt, paced, h_run>>
          ELSE /\ store' = r.coll
               /\ EndIteration(link, r.ret,
                               IF r.ret = 1 THEN "inserted" ELSE "insert_error",
                               r.ret = 1)
               /\ h_run' = IF r.ret = 1 THEN h_run
                           ELSE [h_run EXCEPT !.failed = @ \cup {link},
                                              !.insertErr = @ \cup {link}]
  /\ UNCHANGED <<runVars, discVars, collVars, planVars, j, h_unpaced,
                 h_fetched, h_prev, callVars, startVars, h_crash, raceVars, pureVars, h_phases>>

\* except errors.DuplicateKeyError: return update_job_search_tag(...)
DupFallback ==
  /\ pc = "dup"
  /\ \E raised \in BOOLEAN :
       LET r == update_job_search_tag(store, job_details, search_string, raised)
       IN /\ store' = r.coll
          /\ EndIteration(job_details, r.ret,
                          IF raised THEN "dup_error"
                          ELSE IF r.ret = 1 THEN "dup_tagged"
                          ELSE "dup_unchanged",
                          r.ret = 1)
          /\ h_run' = IF raised
                      THEN [h_run EXCEPT !.tagErr = @ \cup {job_details}]
                      ELSE h_run
  /\ UNCHANGED <<runVars, discVars, collVars, planVars, j, h_unpaced,
                 h_fetched, h_prev, callVars,
                 startVars, h_crash, raceVars, pureVars, h_phases>>

\* The two closing messages of main_scraper_orchestrator.
FinishRun ==
  /\ pc = "fetch"
  /\ n > Len(links_to_scrape)
  /\ pc' = "finished"
  /\ UNCHANGED <<runVars, discVars, collVars, planVars, j, fetchVars, store,
                 h_run, h_prev, callVars,
                 startVars, h_crash, raceVars, pureVars, h_phases>>

\* --------------------------------------------------- run_multiple_searches
\* for url in search_urls: await main_scraper_orchestrator(url)
NextSearch ==
  /\ pc = "finished"
  /\ IF run < Len(search_urls)
     THEN /\ run' = run + 1
          /\ search_string' = QueryOf(search_urls[run + 1])
          /\ pc' = "discover"
          /\ total_pages' = 0
          /\ h_discover' = NoDiscover
          /\ h_log' = "none"
          /\ i' = 0
          /\ all_job_links_set' = {}
          /\ links_left' = 0
          /\ slept' = FALSE
          /\ h_attempted' = <<>>
          /\ h_failedPages' = {}
          /\ h_page' = {}
          /\ h_pagesOk' = {}
          /\ h_seen' = {}
          /\ h_repeat' = FALSE
          /\ h_rushed' = FALSE
          /\ all_job_links' = <<>>
          /\ existing_urls' = {}
          /\ links_to_scrape' = <<>>
          /\ links_to_update' = <<>>
          /\ j' = 0
          /\ n' = 0
          /\ scraped_count' = 0
          /\ job_details' = 0
          /\ h_iter' = NoIter
          /\ h_flushAt' = {}
          /\ paced' = FALSE
          /\ h_unpaced' = FALSE
          /\ h_fetched' = <<>>
          /\ h_run' = NoRun
          /\ h_phases' = <<>>
          /\ h_prev' = h_run
     ELSE /\ pc' = "done"
          /\ UNCHANGED <<run, search_string, discVars, collVars, planVars, j,
                         fetchVars, h_run, h_prev, h_phases>>
  /\ UNCHANGED <<search_urls, store, callVars,
                 startVars, h_crash, raceVars, pureVars>>

Next ==
  \/ GetTotalPages
  \/ StartCollect
  \/ LoadPage
  \/ ReadLink
  \/ PageDone
  \/ ReturnLinks
  \/ LoadExistingAndPlan
  \/ TagExisting
  \/ StartFetch
  \/ FetchNew
  \/ InsertNew
  \/ DupFallback
  \/ FinishRun
  \/ NextSearch

Spec == Init /\ [][Next]_vars

\* ------------------------------------------------------------ SpecCollect
\* Page discovery and link collection of one run.
NextCollect ==
  \/ GetTotalPages
  \/ StartCollect
  \/ LoadPage
  \/ ReadLink
  \/ PageDone
  \/ ReturnLinks

SpecCollect == Init /\ [][NextCollect]_vars

\* --------------------------------------------------------------- SpecPlan
\* Documents written by src/load_jobs_to_mongodb.py carry no 'searches'.
BareDoc == [present |-> TRUE, searches |-> <<>>]

\* main_scraper_orchestrator at line 139, for every list
\* get_unique_job_links can return and every set of stored urls.
InitPlan ==
  /\ search_urls \in [1..1 -> Tokens]
  /\ run = 1
  /\ search_string = QueryOf(search_urls[1])
  /\ store \in [Ids -> {NoDoc, BareDoc}]
  /\ h_prev = NoRun
  /\ FreshRun
  /\ NoCalls
  /\ LiveCollection
  /\ NoRace
  /\ NoPure
  /\ pc = "collecting"

\* get_unique_job_links returns some list without repetition.
ReturnAnyLinks ==
  /\ pc = "collecting"
  /\ \E S \in SUBSET Ids : all_job_links' \in ListsOf(S)
  /\ pc' = "collected"
  /\ UNCHANGED <<runVars, discVars, collVars, existing_urls, links_to_scrape,
                 links_to_update, j, fetchVars, store, h_run, h_prev,
                 callVars,
                 startVars, h_crash, raceVars, pureVars, h_phases>>

NextPlan == ReturnAnyLinks \/ LoadExistingAndPlan

SpecPlan == InitPlan /\ [][NextPlan]_vars

\* ---------------------------------------------------------------- SpecTag
\* All duplicate-free arrays of query tokens.
TagArrays == UNION {ListsOf(S) : S \in SUBSET Tokens}
Docs == {NoDoc} \cup [present : {TRUE}, searches : TagArrays]

\* A collection holding any one document or none, and a caller about to
\* call update_job_search_tag(collection, t_url, search_string) twice.
InitTag ==
  /\ search_urls \in [1..1 -> Tokens]
  /\ run = 1
  /\ search_string = QueryOf(search_urls[1])
  /\ t_url \in Ids
  /\ \E d \in Docs : store = [id \in Ids |-> IF id = t_url THEN d ELSE NoDoc]
  /\ t_ret = <<>>
  /\ t_raised = <<>>
  /\ t_after1 = [id \in Ids |-> NoDoc]
  /\ h_prev = NoRun
  /\ FreshRun
  /\ LiveCollection
  /\ NoRace
  /\ NoPure
  /\ pc = "calls"

\* One call of update_job_search_tag(collection, t_url, search_string).
CallUpdateTag ==
  /\ pc = "calls"
  /\ Len(t_ret) < 2
  /\ \E raised \in BOOLEAN :
       LET r == update_job_search_tag(store, t_url, search_string, raised)
       IN /\ store' = r.coll
          /\ t_ret' = Append(t_ret, r.ret)
          /\ t_raised' = Append(t_raised, raised)
          /\ t_after1' = IF t_ret = <<>> THEN r.coll ELSE t_after1
  /\ UNCHANGED <<runVars, pc, discVars, collVars, planVars, j, fetchVars,
                 h_run, h_prev, t_url, startVars, h_crash, raceVars, pureVars, h_phases>>

NextTag == CallUpdateTag

SpecTag == InitTag /\ [][NextTag]_vars

\* -------------------------------------------------------------- SpecFetch
\* One run of main_scraper_orchestrator from line 139 to its end, for every
\* list get_unique_job_links can return and every set of stored urls.
NextFetch ==
  \/ ReturnAnyLinks
  \/ LoadExistingAndPlan
  \/ TagExisting
  \/ StartFetch
  \/ FetchNew
  \/ InsertNew
  \/ DupFallback
  \/ FinishRun

SpecFetch == InitPlan /\ [][NextFetch]_vars

\* ------------------------------------------------------------ SpecStartup
\* How connect_to_mongodb can end: the ping answered, MongoClient or the
\* ping raised ConnectionFailure, or they raised another exception.
ConnectOutcomes == {"ok", "connection_failure", "other_error"}

\* connect_to_mongodb: return client, db, or return None, None from either
\* except clause.
connect_to_mongodb(outcome) ==
  IF outcome = "ok" THEN PyTuple(PyClient, PyDatabase)
  ELSE PyTuple(PyNone, PyNone)

\* v is None
IsNone(v) == v.type = "NoneType"

\* Mutant: the subscript gives a collection whatever it is applied to.
GetItem_Lenient(v, key) == [raised |-> FALSE, value |-> PyCollection]

\* v[key] for a string key: a Database gives the collection of that name; a
\* tuple takes integer indices only and None takes none, both raise
\* TypeError.
GetItem(v, key) ==
  IF v.type = "Database" THEN [raised |-> FALSE, value |-> PyCollection]
  ELSE [raised |-> TRUE, value |-> PyNone]

\* run_multiple_searches calls main_scraper_orchestrator for the first url:
\* nothing is bound, and the collection holds whatever earlier use left.
InitStartup ==
  /\ search_urls \in UNION {[1..m -> Tokens] : m \in 1..MaxRuns}
  /\ run = 1
  /\ search_string = 0
  /\ store \in [Ids -> {NoDoc, BareDoc}]
  /\ h_prev = NoRun
  /\ FreshRun
  /\ NoCalls
  /\ db = PyNone
  /\ job_collection = PyNone
  /\ h_connect = "none"
  /\ h_crash = NoCrash
  /\ NoRace
  /\ NoPure
  /\ pc = "connect"

\* db = connect_to_mongodb()
ConnectToMongodb ==
  /\ pc = "connect"
  /\ \E outcome \in ConnectOutcomes :
       /\ db' = connect_to_mongodb(outcome)
       /\ h_connect' = outcome
  /\ pc' = "connected"
  /\ UNCHANGED <<runVars, discVars, collVars, planVars, j, fetchVars, store,
                 h_run, h_prev, callVars, job_collection, h_crash, raceVars, pureVars, h_phases>>

\* if db is None: return; job_collection = db[COLLECTION_NAME]; the search
\* string of line 129.  A TypeError of the subscript leaves the orchestrator
\* and run_multiple_searches, which catch nothing.
CheckDb ==
  /\ pc = "connected"
  /\ IF IsNone(db)
     THEN /\ pc' = "returned"
          /\ UNCHANGED <<job_collection, search_string>>
     ELSE LET r == GetItem(db, "dice_jobs") IN
          IF r.raised
          THEN /\ pc' = "raised"
               /\ UNCHANGED <<job_collection, search_string>>
          ELSE /\ job_collection' = r.value
               /\ search_string' = QueryOf(search_urls[run])
               /\ pc' = "discover"
  /\ UNCHANGED <<search_urls, run, discVars, collVars, planVars, j, fetchVars,
                 store, h_run, h_prev, callVars, db, h_connect, h_crash, raceVars, pureVars, h_phases>>

NextStartup == ConnectToMongodb \/ CheckDb

SpecStartup == InitStartup /\ [][NextStartup]_vars

\* -------------------------------------------------------------- SpecCrash
\* The process is killed at some point of a run (main_scraper_orchestrator
\* holds its state in locals only and has no handler of its own), and is
\* started again for the same search: every local is lost, the collection
\* is what it was.
Crash ==
  /\ pc \in {"collecting", "collected", "tag", "fetch", "insert", "dup",
            "finished"}
  /\ ~h_crash.crashed
  /\ h_crash' = [crashed |-> TRUE,
                 persisted |-> {id \in Ids : store[id].present}]
  /\ pc' = "collecting"
  /\ total_pages' = 0
  /\ h_discover' = NoDiscover
  /\ h_log' = "none"
  /\ i' = 0
  /\ all_job_links_set' = {}
  /\ links_left' = 0
  /\ slept' = FALSE
  /\ h_attempted' = <<>>
  /\ h_failedPages' = {}
  /\ h_page' = {}
  /\ h_pagesOk' = {}
  /\ h_seen' = {}
  /\ h_repeat' = FALSE
  /\ h_rushed' = FALSE
  /\ all_job_links' = <<>>
  /\ existing_urls' = {}
  /\ links_to_scrape' = <<>>
  /\ links_to_update' = <<>>
  /\ j' = 0
  /\ n' = 0
  /\ scraped_count' = 0
  /\ job_details' = 0
  /\ h_iter' = NoIter
  /\ h_flushAt' = {}
  /\ paced' = FALSE
  /\ h_unpaced' = FALSE
  /\ h_fetched' = <<>>
  /\ h_run' = NoRun
  /\ h_phases' = <<>>
  /\ UNCHANGED <<runVars, store, h_prev, callVars, startVars, raceVars, pureVars>>

NextCrash ==
  \/ ReturnAnyLinks
  \/ LoadExistingAndPlan
  \/ TagExisting
  \/ StartFetch
  \/ FetchNew
  \/ InsertNew
  \/ DupFallback
  \/ FinishRun
  \/ Crash

SpecCrash == InitPlan /\ [][NextCrash]_vars

\* -------------------------------------------------------------- SpecStore
\* Any sequence of insert_new_job and update_job_search_tag calls, with any
\* url and any search string, on a collection that starts with documents
\* without tags or with none.
InitStore ==
  /\ search_urls \in [1..1 -> Tokens]
  /\ run = 1
  /\ search_string = QueryOf(search_urls[1])
  /\ store \in [Ids -> {NoDoc, BareDoc}]
  /\ h_prev = NoRun
  /\ FreshRun
  /\ NoCalls
  /\ LiveCollection
  /\ NoRace
  /\ NoPure
  /\ pc = "store"

\* update_job_search_tag(collection, url, q)
CallAnyUpdate ==
  /\ pc = "store"
  /\ \E url \in Ids, q \in Tokens, raised \in BOOLEAN :
       LET r == update_job_search_tag(store, url, q, raised)
       IN /\ store' = r.coll
          /\ t_url' = url
          /\ t_ret' = <<r.ret>>
          /\ t_raised' = <<raised>>
  /\ UNCHANGED <<runVars, pc, discVars, collVars, planVars, j, fetchVars,
                 h_run, h_prev, t_after1, startVars, h_crash, raceVars, pureVars, h_phases>>

\* insert_new_job(collection, job_details, q), the tag update of its
\* DuplicateKeyError clause included.
CallAnyInsert ==
  /\ pc = "store"
  /\ \E url \in Ids, q \in Tokens, raised \in BOOLEAN, raised2 \in BOOLEAN :
       LET r == insert_new_job(store, url, q, raised)
           u == update_job_search_tag(store, url, q, raised2)
       IN /\ store' = IF r.dup THEN u.coll ELSE r.coll
          /\ t_url' = url
          /\ t_ret' = <<IF r.dup THEN u.ret ELSE r.ret>>
          /\ t_raised' = <<IF r.dup THEN raised2 ELSE raised>>
  /\ UNCHANGED <<runVars, pc, discVars, collVars, planVars, j, fetchVars,
                 h_run, h_prev, t_after1, startVars, h_crash, raceVars, pureVars, h_phases>>

NextStore == CallAnyUpdate \/ CallAnyInsert

SpecStore == InitStore /\ [][NextStore]_vars

\* --------------------------------------------------------------- SpecRace
\* Two runs of main_scraper_orchestrator, started for different searches,
\* work on one collection at the same time; both have collected the
\* identifier r_id, which the collection does not hold.  Each step is one
\* call of the run: the Store answers every call atomically.
TokenOf(p) == p

InitRace ==
  /\ search_urls = [p \in Procs |-> TokenOf(p)]
  /\ run = 1
  /\ search_string = 0
  /\ r_id \in Ids
  /\ store \in {st \in [Ids -> {NoDoc, BareDoc}] : st[r_id] = NoDoc}
  /\ r_pc = [p \in Procs |-> "collected"]
  /\ r_known = [p \in Procs |-> FALSE]
  /\ r_how = [p \in Procs |-> "none"]
  /\ r_err = [p \in Procs |-> FALSE]
  /\ NoPure
  /\ h_prev = NoRun
  /\ FreshRun
  /\ NoCalls
  /\ LiveCollection
  /\ pc = "race"

RaceUnchanged ==
  UNCHANGED <<runVars, pc, discVars, collVars, planVars, j, fetchVars, h_run,
              h_prev, callVars, startVars, h_crash, r_id, pureVars, h_phases>>

\* Lines 139-148 of run p for all_job_links = [r_id].
RaceSnapshot(p) ==
  /\ r_pc[p] = "collected"
  /\ \E raised \in BOOLEAN :
       LET known == load_existing_urls_from_mongo(store, raised)
           plan == Plan(<<r_id>>, known)
       IN /\ r_known' = [r_known EXCEPT ![p] = r_id \in known]
          /\ r_pc' = [r_pc EXCEPT ![p] = IF plan.update # <<>> THEN "tag"
                                        ELSE "fetch"]
  /\ UNCHANGED <<store, r_how, r_err>>
  /\ RaceUnchanged

\* Lines 152-153 of run p; links_to_scrape is empty.
RaceTag(p) ==
  /\ r_pc[p] = "tag"
  /\ \E raised \in BOOLEAN :
       LET r == update_job_search_tag(store, r_id, TokenOf(p), raised)
       IN /\ store' = r.coll
          /\ r_how' = [r_how EXCEPT ![p] = IF raised THEN "tag_error"
                                          ELSE "tagged"]
          /\ r_err' = [r_err EXCEPT ![p] = @ \/ raised]
  /\ r_pc' = [r_pc EXCEPT ![p] = "finished"]
  /\ UNCHANGED r_known
  /\ RaceUnchanged

\* Line 160 of run p: scrape_dice_job(r_id) gives None or a record.
RaceFetch(p) ==
  /\ r_pc[p] = "fetch"
  /\ \/ /\ r_pc' = [r_pc EXCEPT ![p] = "finished"]
        /\ r_how' = [r_how EXCEPT ![p] = "fetch_failed"]
        /\ r_err' = [r_err EXCEPT ![p] = TRUE]
     \/ /\ r_pc' = [r_pc EXCEPT ![p] = "insert"]
        /\ UNCHANGED <<r_how, r_err>>
  /\ UNCHANGED <<store, r_known>>
  /\ RaceUnchanged

\* Line 164 of run p, up to the answer of insert_one.
RaceInsert(p) ==
  /\ r_pc[p] = "insert"
  /\ \E raised \in BOOLEAN :
       LET r == insert_new_job(store, r_id, TokenOf(p), raised)
       IN /\ r_err' = [r_err EXCEPT ![p] = @ \/ raised]
          /\ IF r.dup
             THEN /\ r_pc' = [r_pc EXCEPT ![p] = "dup"]
                  /\ UNCHANGED <<store, r_how>>
             ELSE /\ store' = r.coll
                  /\ r_pc' = [r_pc EXCEPT ![p] = "finished"]
                  /\ r_how' = [r_how EXCEPT ![p] =
                                 IF r.ret = 1 THEN "inserted"
                                 ELSE "insert_error"]
  /\ UNCHANGED r_known
  /\ RaceUnchanged

\* Line 50 of run p: the tag update after DuplicateKeyError.
RaceDup(p) ==
  /\ r_pc[p] = "dup"
  /\ \E raised \in BOOLEAN :
       LET r == update_job_search_tag(store, r_id, TokenOf(p), raised)
       IN /\ store' = r.coll
          /\ r_how' = [r_how EXCEPT ![p] = IF raised THEN "dup_error"
                                          ELSE "dup_tagged"]
          /\ r_err' = [r_err EXCEPT ![p] = @ \/ raised]
  /\ r_pc' = [r_pc EXCEPT ![p] = "finished"]
  /\ UNCHANGED r_known
  /\ RaceUnchanged

NextRace ==
  \E p \in Procs :
    \/ RaceSnapshot(p)
    \/ RaceTag(p)
    \/ RaceFetch(p)
    \/ RaceInsert(p)
    \/ RaceDup(p)

SpecRace == InitRace /\ [][NextRace]_vars

\* ---------------------------------------------------------------- SpecUrl
\* Everything but pc and the variables of the pure functions.
coreVars == <<runVars, discVars, collVars, planVars, j, fetchVars, store,
              h_run, h_prev, callVars, startVars, h_crash, raceVars,
              h_phases>>

\* The characters search texts and locations are made of: a letter, the
\* space, and two characters urlencode must escape.
TextChars == {"a", " ", "&", "?"}

Texts(maxLen) ==
  {PyStrNone} \cup {PyStr(t) : t \in UNION {[1..m -> TextChars] : m \in 0..maxLen}}

\* The work modes tried: the three names in several cases, an unknown name,
\* the empty string and None.
WorkModes ==
  { PyStrNone, PyStr(<<>>),
    PyStr(<<"r", "e", "m", "o", "t", "e">>),
    PyStr(<<"R", "e", "m", "o", "t", "e">>),
    PyStr(<<"R", "E", "M", "O", "T", "E">>),
    PyStr(<<"h", "y", "b", "r", "i", "d">>),
    PyStr(<<"H", "y", "B", "r", "I", "d">>),
    PyStr(<<"o", "n", "s", "i", "t", "e">>),
    PyStr(<<"O", "N", "s", "i", "t", "e">>),
    PyStr(<<"o", "n", "-", "s", "i", "t", "e">>) }

\* str.lower(), character by character.
UpperChars == <<"R", "E", "M", "O", "T", "H", "Y", "B", "I", "D", "N", "S">>
LowerChars == <<"r", "e", "m", "o", "t", "h", "y", "b", "i", "d", "n", "s">>
LowerChar(c) ==
  IF \E k \in DOMAIN UpperChars : UpperChars[k] = c
  THEN LowerChars[CHOOSE k \in DOMAIN UpperChars : UpperChars[k] = c]
  ELSE c
Lower(str) == [k \in DOMAIN str |-> LowerChar(str[k])]

\* workplace_type_map.get(...): the mapped name, or None
workplace_type_map(name) ==
  IF name = <<"r", "e", "m", "o", "t", "e">>
    THEN PyStr(<<"R", "e", "m", "o", "t", "e">>)
  ELSE IF name = <<"h", "y", "b", "r", "i", "d">>
    THEN PyStr(<<"H", "y", "b", "r", "i", "d">>)
  ELSE IF name = <<"o", "n", "s", "i", "t", "e">>
    THEN PyStr(<<"O", "n", "s", "i", "t", "e">>)
  ELSE PyStrNone

\* if x: for an optional string
StrTruthy(x) == ~x.none /\ x.s # <<>>

\* Mutant: the characters are not escaped.
QuoteChar_Identity(c) == c

\* quote_plus on one character: a space becomes '+', a reserved character its
\* percent code (one token here), a letter, digit, '-' or '.' stays.
QuoteChar(c) ==
  IF c = " " THEN "+"
  ELSE IF c = "," THEN "%2C"
  ELSE IF c = "&" THEN "%26"
  ELSE IF c = "=" THEN "%3D"
  ELSE IF c = "?" THEN "%3F"
  ELSE IF c = "+" THEN "%2B"
  ELSE c

quote_plus(str) == [k \in DOMAIN str |-> QuoteChar(str[k])]

\* urlencode(ordered_params, quote_via=quote_plus): key=value pairs joined
\* by '&'.  A key is one token.
RECURSIVE urlencode(_)
urlencode(params) ==
  IF params = <<>> THEN <<>>
  ELSE LET p == Head(params)
           pair == <<p.key, "=">> \o quote_plus(p.value)
       IN IF Len(params) = 1 THEN pair
          ELSE pair \o <<"&">> \o urlencode(Tail(params))

\* Mutant: the search text is appended before the location.
OrderedParams_TextFirst(wt, loc, txt) == wt \o txt \o loc

\* ordered_params after the three appends.
OrderedParams(wt, loc, txt) == wt \o loc \o txt

\* build_dice_url(search_text, location, workplace_type): the URL as the
\* sequence of its tokens.
build_dice_url(args) ==
  LET mapped == IF StrTruthy(args.workplace_type)
                THEN workplace_type_map(Lower(args.workplace_type.s))
                ELSE PyStrNone
      wt == IF StrTruthy(mapped)
            THEN <<[key |-> "filters.workplaceTypes", value |-> mapped.s]>>
            ELSE <<>>
      loc == IF StrTruthy(args.location)
             THEN <<[key |-> "location",
                     value |-> args.location.s \o <<",", " ", "U", "S", "A">>]>>
             ELSE <<>>
      txt == IF StrTruthy(args.search_text)
             THEN <<[key |-> "q", value |-> args.search_text.s]>>
             ELSE <<>>
  IN <<"https://www.dice.com/jobs", "?">>
       \o urlencode(OrderedParams(wt, loc, txt))

\* str.split(sep): the pieces between the separators.
RECURSIVE Split(_, _)
Split(str, sep) ==
  IF \A k \in DOMAIN str : str[k] # sep THEN <<str>>
  ELSE LET k == CHOOSE x \in DOMAIN str :
                  str[x] = sep /\ \A y \in 1..(x - 1) : str[y] # sep
       IN <<SubSeq(str, 1, k - 1)>> \o Split(SubSeq(str, k + 1, Len(str)), sep)

\* search_url.split('?')[1] if '?' in search_url else 'N/A'
SearchStringOf(url) ==
  IF \E k \in DOMAIN url : url[k] = "?" THEN Split(url, "?")[2] ELSE <<"N/A">>

\* The calls build_dice_url can get: any text, any location, any work mode,
\* and beside them the same call with the work mode in any other case.
InitUrl ==
  /\ search_urls \in [1..1 -> Tokens]
  /\ run = 1
  /\ search_string = QueryOf(search_urls[1])
  /\ store = [id \in Ids |-> NoDoc]
  /\ h_prev = NoRun
  /\ FreshRun
  /\ NoCalls
  /\ LiveCollection
  /\ NoRace
  /\ NoFile
  /\ NoScore
  /\ u_args \in [search_text : Texts(MaxTextLen), location : Texts(MaxLocLen),
                 workplace_type : WorkModes]
  /\ \E w \in WorkModes :
       /\ w.none = u_args.workplace_type.none
       /\ Lower(w.s) = Lower(u_args.workplace_type.s)
       /\ u_alt = [u_args EXCEPT !.workplace_type = w]
  /\ u_url = <<>>
  /\ u_tag = <<>>
  /\ pc = "args"

\* search_url = build_dice_url(...), for both calls
BuildDiceUrl ==
  /\ pc = "args"
  /\ u_url' = <<build_dice_url(u_args), build_dice_url(u_alt)>>
  /\ pc' = "built"
  /\ UNCHANGED <<coreVars, fileVars, scoreVars, u_args, u_alt, u_tag>>

\* Line 129 of main_scraper_orchestrator, for both URLs.
ExtractSearchString ==
  /\ pc = "built"
  /\ u_tag' = <<SearchStringOf(u_url[1]), SearchStringOf(u_url[2])>>
  /\ pc' = "tagged"
  /\ UNCHANGED <<coreVars, fileVars, scoreVars, u_args, u_alt, u_url>>

NextUrl == BuildDiceUrl \/ ExtractSearchString

SpecUrl == InitUrl /\ [][NextUrl]_vars

\* ---------------------------------------------------------------------------
\* SpecRun: one whole run of the pipeline of scrape_dice_search_results, from
\* page discovery to the end of the fetch loop, over any store.
InitRun ==
  /\ search_urls \in [1..1 -> Tokens]
  /\ run = 1
  /\ search_string = QueryOf(search_urls[1])
  /\ store \in [Ids -> {NoDoc, BareDoc}]
  /\ h_prev = NoRun
  /\ FreshRun
  /\ NoCalls
  /\ LiveCollection
  /\ NoRace
  /\ NoPure
  /\ pc = "discover"

NextRun ==
  \/ GetTotalPages
  \/ StartCollect
  \/ LoadPage
  \/ ReadLink
  \/ PageDone
  \/ ReturnLinks
  \/ LoadExistingAndPlan
  \/ TagExisting
  \/ StartFetch
  \/ FetchNew
  \/ InsertNew
  \/ DupFallback
  \/ FinishRun

SpecRun == InitRun /\ [][NextRun]_vars

\* ---------------------------------------------------------------------------
\* SpecRefetch: the pipeline from line 139 over stores whose documents
\* already carry the token of some search, so that a document written again
\* differs from one that was only tagged.
TaggedDoc(token) == [present |-> TRUE, searches |-> <<token>>]

InitRefetch ==
  /\ search_urls \in [1..1 -> Tokens]
  /\ run = 1
  /\ search_string = QueryOf(search_urls[1])
  /\ store \in [Ids -> {NoDoc} \cup {TaggedDoc(t) : t \in Tokens}]
  /\ h_prev = NoRun
  /\ FreshRun
  /\ NoCalls
  /\ LiveCollection
  /\ NoRace
  /\ NoPure
  /\ pc = "collecting"

SpecRefetch == InitRefetch /\ [][NextFetch]_vars

\* ---------------------------------------------------------------------------
\* SpecFile: get_unique_filename (src/file_utilities.py), one call over a
\* file system that nothing else changes.  A path is a sequence of
\* characters; the file system is the set of paths that exist.
NameChars == {"a", ".", "/"}
Names == SeqsUpTo(NameChars, MaxNameLen)

\* p.rfind(c), counted from 1, 0 when c is not in p.
RFind(p, c) ==
  IF \E k \in DOMAIN p : p[k] = c
  THEN CHOOSE k \in DOMAIN p :
         p[k] = c /\ \A m \in DOMAIN p : p[m] = c => m <= k
  ELSE 0

\* os.path.splitext: the extension starts at the last dot of the last path
\* component, unless only dots come before it in that component.
splitext(p) ==
  LET sepIndex == RFind(p, "/")
      dotIndex == RFind(p, ".")
  IN IF /\ dotIndex > sepIndex
        /\ \E k \in (sepIndex + 1)..(dotIndex - 1) : p[k] # "."
     THEN [name |-> SubSeq(p, 1, dotIndex - 1),
           ext |-> SubSeq(p, dotIndex, Len(p))]
     ELSE [name |-> p, ext |-> <<>>]

\* str(k) of a natural number: its decimal digits.
RECURSIVE Str(_)
Str(k) ==
  IF k < 10 THEN <<DigitStr[k + 1]>>
  ELSE Str(k \div 10) \o <<DigitStr[(k % 10) + 1]>>

\* f"{name}_{counter}{ext}"
NumberedName(name, counter, ext) == name \o <<"_">> \o Str(counter) \o ext

\* os.path.exists(path)
Exists(path) == path \in f_files

\* Mutant: the counter goes up by two.
NextCounter_ByTwo(counter) == counter + 2

\* counter += 1
NextCounter(counter) == counter + 1

InitFile ==
  /\ search_urls \in [1..1 -> Tokens]
  /\ run = 1
  /\ search_string = QueryOf(search_urls[1])
  /\ store = [id \in Ids |-> NoDoc]
  /\ h_prev = NoRun
  /\ FreshRun
  /\ NoCalls
  /\ LiveCollection
  /\ NoRace
  /\ NoUrl
  /\ NoScore
  /\ f_base \in Names
  /\ LET s == splitext(f_base)
     IN f_files \in SUBSET ({f_base} \cup
                     {NumberedName(s.name, k, s.ext) : k \in 1..MaxSuffix})
  /\ f_name = <<>>
  /\ f_ext = <<>>
  /\ f_counter = 0
  /\ f_new = <<>>
  /\ f_ret = <<>>
  /\ pc = "unique_call"

\* Lines 14-19: the base name is returned when it does not exist, else the
\* first numbered name is built.
UniqueCall ==
  /\ pc = "unique_call"
  /\ IF ~Exists(f_base)
     THEN /\ f_ret' = f_base
          /\ pc' = "unique_returned"
          /\ UNCHANGED <<f_name, f_ext, f_counter, f_new>>
     ELSE LET s == splitext(f_base)
          IN /\ f_name' = s.name
             /\ f_ext' = s.ext
             /\ f_counter' = 1
             /\ f_new' = NumberedName(s.name, 1, s.ext)
             /\ pc' = "unique_loop"
             /\ UNCHANGED f_ret
  /\ UNCHANGED <<coreVars, urlVars, scoreVars, f_base, f_files>>

\* Lines 21-25: one test of the while loop, then its body or the return.
UniqueLoop ==
  /\ pc = "unique_loop"
  /\ IF Exists(f_new)
     THEN /\ f_counter' = NextCounter(f_counter)
          /\ f_new' = NumberedName(f_name, NextCounter(f_counter), f_ext)
          /\ UNCHANGED <<pc, f_ret>>
     ELSE /\ f_ret' = f_new
          /\ pc' = "unique_returned"
          /\ UNCHANGED <<f_counter, f_new>>
  /\ UNCHANGED <<coreVars, urlVars, scoreVars, f_base, f_files, f_name, f_ext>>

NextFile == UniqueCall \/ UniqueLoop

SpecFile == InitFile /\ [][NextFile]_vars

\* ---------------------------------------------------------------------------
\* SpecScore: the loop of score_jobs_against_resume (src/resume_match_scorer.py,
\* lines 205-274) over the jobs loaded at line 189.  A score is an integer
\* count of 10^-5; a dict entry is a record saying whether the key is there.
Missing == [has |-> FALSE, v |-> 0]
Val(x) == [has |-> TRUE, v |-> x]

\* The score fields as the scorer leaves them in a document: absent, zero,
\* or a value of four decimals.
StoredScores == {Missing, Val(0), Val(50000)}
StoredCounts == {Missing, Val(1)}
JobDicts == [semantic_score_v2 : StoredScores,
             skills_intersection_score : StoredScores,
             matched_skills_count : StoredCounts]

\* What calculate_semantic_similarity and
\* calculate_skills_intersection_score can return.
SemanticResults == {0, 12344}
SkillsResults == {[score |-> 33333, count |-> 1]}

\* round(x, 4) of a non-negative score.
Round4(x) == ((x + 5) \div 10) * 10

\* job.get(key, default)
Get(field, default) == IF field.has THEN field.v ELSE default

\* Lines 214-218.
needs_scoring(job) ==
  LET semantic_score == Get(job.semantic_score_v2, 0)
      skills_score == Get(job.skills_intersection_score, 0)
      semantic_score_exists == job.semantic_score_v2.has /\ semantic_score > 0
      skills_score_exists ==
        job.skills_intersection_score.has /\ skills_score > 0
      raw_count_exists == job.matched_skills_count.has
  IN ~(semantic_score_exists /\ skills_score_exists /\ raw_count_exists)

\* Lines 231-232: the old semantic score is used when there is one above 0.
\* get_job_embedding_input always returns a text that is not blank.
SemanticScoreOf(job, computed) ==
  IF job.semantic_score_v2.has /\ job.semantic_score_v2.v > 0
  THEN job.semantic_score_v2.v
  ELSE computed

\* Lines 240-242.
Scored(job, semantic_score, skills) ==
  [semantic_score_v2 |-> Val(Round4(semantic_score)),
   skills_intersection_score |-> Val(Round4(skills.score)),
   matched_skills_count |-> Val(skills.count)]

\* _update_job_scores_in_mongo: $set of the three fields on the document
\* of the job's url; an error of update_one is printed and swallowed.
\* A job's url is its position in the collection.  The call of line 245 is
\* inside "if needs_scoring".
IssueUpdate(needs) == needs

\* Line 258.
AtCheckpoint(job_index, total, interval) ==
  job_index % interval = 0 \/ job_index = total

\* Lines 267-268: f"{job.get(FIELD):.4f}" raises TypeError for None.
FormatRaises(job) ==
  ~job.semantic_score_v2.has \/ ~job.skills_intersection_score.has

InitScore ==
  /\ search_urls \in [1..1 -> Tokens]
  /\ run = 1
  /\ search_string = QueryOf(search_urls[1])
  /\ store = [id \in Ids |-> NoDoc]
  /\ h_prev = NoRun
  /\ FreshRun
  /\ NoCalls
  /\ LiveCollection
  /\ NoRace
  /\ NoUrl
  /\ NoFile
  /\ s_jobs \in UNION {[1..m -> JobDicts] : m \in 1..MaxJobs}
  /\ s_docs = s_jobs
  /\ h_loaded = s_jobs
  /\ s_interval \in 1..MaxInterval
  /\ s_i = 1
  /\ s_needs = FALSE
  /\ s_calc = 0
  /\ h_writes = <<>>
  /\ h_scoreErr = {}
  /\ pc = "score_job"

\* Lines 206-254 for the job at job_index.
ScoreJob ==
  /\ pc = "score_job"
  /\ s_i <= Len(s_jobs)
  /\ LET job == s_jobs[s_i]
         needs == needs_scoring(job)
         embeds == ~(job.semantic_score_v2.has /\ job.semantic_score_v2.v > 0)
     IN /\ s_needs' = needs
        /\ \/ \* the job is skipped
              /\ ~needs
              /\ h_writes' = IF IssueUpdate(needs) THEN Append(h_writes, s_i)
                             ELSE h_writes
              /\ UNCHANGED <<s_jobs, s_docs, s_calc, h_scoreErr>>
           \/ \* calculate_semantic_similarity raised
              /\ needs /\ embeds
              /\ h_scoreErr' = h_scoreErr \cup {s_i}
              /\ UNCHANGED <<s_jobs, s_docs, s_calc, h_writes>>
           \/ \* the scores were calculated
              /\ needs
              /\ \E computed \in SemanticResults, skills \in SkillsResults,
                    raised \in BOOLEAN :
                   LET new == Scored(job, SemanticScoreOf(job, computed),
                                     skills)
                   IN /\ s_jobs' = [s_jobs EXCEPT ![s_i] = new]
                      /\ s_docs' = IF raised \/ ~IssueUpdate(needs) THEN s_docs
                                   ELSE [s_docs EXCEPT ![s_i] = new]
              /\ h_writes' = IF IssueUpdate(needs) THEN Append(h_writes, s_i)
                             ELSE h_writes
              /\ s_calc' = s_calc + 1
              /\ UNCHANGED h_scoreErr
  /\ pc' = "score_log"
  /\ UNCHANGED <<coreVars, urlVars, fileVars, s_interval, s_i, h_loaded>>

\* Lines 258-273 for the same job, then the next job or the summary.
LogJob ==
  /\ pc = "score_log"
  /\ IF AtCheckpoint(s_i, Len(s_jobs), s_interval) /\ FormatRaises(s_jobs[s_i])
     THEN /\ pc' = "score_raised"
          /\ UNCHANGED s_i
     ELSE /\ s_i' = s_i + 1
          /\ pc' = IF s_i = Len(s_jobs) THEN "score_done" ELSE "score_job"
  /\ UNCHANGED <<coreVars, urlVars, fileVars, s_jobs, s_docs, s_interval,
                 s_needs, s_calc, h_writes, h_scoreErr, h_loaded>>

NextScore == ScoreJob \/ LogJob

SpecScore == InitScore /\ [][NextScore]_vars

\* ================================================================ claims
NoDup(s) == \A a, b \in DOMAIN s : a # b => s[a] # s[b]
Count(v, arr) == Cardinality({x \in DOMAIN arr : arr[x] = v})
Planned == pc \in {"tag", "fetch", "insert", "dup", "finished", "done"}

\* C1 (SpecPlan): for every collected list C and every snapshot K the
\* partition gives links_to_update = C \cap K and links_to_scrape = C \ K;
\* the two are disjoint, their union is C, and neither repeats an identifier.
C1_Partition ==
  Planned =>
    LET C == Range(all_job_links)
        K == existing_urls
        toTag == Range(links_to_update)
        toFetch == Range(links_to_scrape)
    IN /\ toTag = C \cap K
       /\ toFetch = C \ K
       /\ toTag \cap toFetch = {}
       /\ toTag \cup toFetch = C
       /\ NoDup(links_to_update)
       /\ NoDup(links_to_scrape)

\* C1 witness: the scenario of the spec, {A, B, C} collected and {B} known.
C1_Witness ==
  /\ pc = "tag"
  /\ Range(all_job_links) = {1, 2, 3}
  /\ existing_urls = {2}
  /\ links_to_update = <<2>>
  /\ Range(links_to_scrape) = {1, 3}

C3_DuplicateCountsAsSuccess ==
  (pc \in {"fetch", "finished"}
     /\ h_iter.outcome \in {"dup_tagged", "dup_unchanged"}) =>
    scraped_count = h_iter.before + 1

\* The success counts at which the fetch loop wrote the Store.
FlushCounts == {f.count : f \in h_flushAt}

\* C4 as claimed (Spec): when every new identifier was fetched and stored,
\* the Store was written at every ProgressInterval-th success and at the
\* end of the list, and at no other count.
C4_FlushAtBoundariesOnly ==
  (pc = "finished" /\ scraped_count = Len(links_to_scrape)) =>
    FlushCounts = {c \in 1..Len(links_to_scrape) :
                     c % ProgressInterval = 0 \/ c = Len(links_to_scrape)}

\* C4 as amended (Spec): the Store is written in the iteration that fetched
\* the record: the writes are at the success counts 1, 2, ..., scraped_count,
\* and at the head of every iteration each earlier identifier whose fetch
\* and insert did not fail is stored; nothing is left for a final flush.
C4_WriteThrough ==
  pc \in {"fetch", "dup", "finished"} =>
    /\ FlushCounts = 1..scraped_count
    /\ \A x \in 1..(n - 1) :
         links_to_scrape[x] \notin h_run.failed =>
           store[links_to_scrape[x]].present

\* C4 witness: three new identifiers, all fetched, written at 1, 2 and 3.
C4_Witness ==
  /\ pc = "finished"
  /\ Len(links_to_scrape) = 3
  /\ scraped_count = 3
  /\ FlushCounts = {1, 2, 3}

C6_Dedup ==
  pc = "collected" =>
    /\ NoDup(all_job_links)
    /\ h_pagesOk \subseteq Range(all_job_links)
    /\ Range(all_job_links) \subseteq h_seen
    /\ (h_failedPages = {} => Range(all_job_links) = h_pagesOk)

\* C6 witness: two pages loaded whole, the second repeated an identifier of
\* the first, three identifiers returned.
C6_Witness ==
  /\ pc = "collected"
  /\ Len(h_attempted) = 2
  /\ h_failedPages = {}
  /\ h_repeat
  /\ Range(all_job_links) = {1, 2, 3}

\* Whether get_total_pages fell back to its default of one page.
UsedDefault ==
  h_discover.kind # "label" \/ ~PageMatch(h_discover.tail).matched

\* C7 (SpecCollect): get_total_pages returns the N of the indicator, 1 when
\* it falls back, and never less than 1.
C7_PositivePages ==
  pc = "discovered" =>
    /\ total_pages >= 1
    /\ UsedDefault => total_pages = 1
    /\ ~UsedDefault => total_pages = IntOf(PageMatch(h_discover.tail).group1)

\* C8 (SpecCollect): whenever get_total_pages falls back to one page it
\* prints the degraded-result message, not the success message.
C8_DefaultIsLogged ==
  (pc = "discovered" /\ UsedDefault) => h_log = "could_not_determine"

\* C9 (SpecCollect): no page load starts without a delay after the page
\* load before it.
C9_DelayBetweenLoads == ~h_rushed

\* C10 (SpecCollect): the pages are attempted once each in ascending order
\* whatever fails, all of 1..total_pages by the time the function returns,
\* and what was read on the other pages is returned.
C10_EveryPageAttempted ==
  /\ pc \in {"collect", "links", "collected"} =>
       h_attempted = [x \in 1..Len(h_attempted) |-> x]
  /\ pc = "collected" =>
       /\ Len(h_attempted) = total_pages
       /\ h_pagesOk \subseteq Range(all_job_links)
       /\ Range(all_job_links) = h_seen

\* C10 witness: the first of two pages failed, the second was still loaded
\* and its identifiers are returned.
C10_Witness ==
  /\ pc = "collected"
  /\ total_pages = 2
  /\ h_failedPages = {1}
  /\ h_pagesOk # {}
  /\ h_pagesOk \subseteq Range(all_job_links)

\* C11 (SpecFetch): every fetch attempt is followed by the pacing sleep,
\* whatever it gave: at the head of every later iteration and at the end of
\* the loop the sleep has run since the last attempt, and no attempt starts
\* without a sleep after the attempt before it.
C11_PacedAfterEveryFetch ==
  /\ ~h_unpaced
  /\ (pc \in {"fetch", "finished"} /\ h_fetched # <<>>) => paced

\* C11 witness: a failed fetch, then a record whose insert failed, then a
\* stored record, each followed by the sleep.
C11_Witness ==
  /\ pc = "finished"
  /\ Len(h_fetched) = 3
  /\ links_to_scrape[1] \in h_run.failed
  /\ ~store[links_to_scrape[1]].present
  /\ links_to_scrape[2] \in h_run.failed
  /\ h_iter.outcome = "inserted"
  /\ paced
  /\ ~h_unpaced

\* C12 (SpecFetch): the identifiers of links_to_scrape are attempted once
\* each, in order, whatever fails, all of them by the end of the run; an
\* iteration whose fetch gave no record writes nothing to the Store and
\* leaves scraped_count as it was.
C12_FailedFetchSkipped ==
  /\ [](pc \in {"fetch", "finished"} =>
          h_fetched = SubSeq(links_to_scrape, 1, n - 1))
  /\ [](pc = "finished" => h_fetched = links_to_scrape)
  /\ []((pc \in {"fetch", "finished"} /\ h_iter.outcome = "fetch_failed") =>
          scraped_count = h_iter.before)
  /\ [][(n' = n + 1 /\ h_iter'.outcome = "fetch_failed") =>
          (store' = store /\ scraped_count' = scraped_count)]_vars

\* C12 witness: the first of three fetches gave no record; the two after it
\* were attempted and stored, and the failed identifier is not stored.
C12_Witness ==
  /\ pc = "finished"
  /\ Len(links_to_scrape) = 3
  /\ h_fetched = links_to_scrape
  /\ h_run.failed = {links_to_scrape[1]}
  /\ ~store[links_to_scrape[1]].present
  /\ scraped_count = 2

\* The run has done work: a page was discovered or loaded, the known
\* identifiers were read, a link was planned, tagged or fetched.
WorkDone ==
  \/ total_pages # 0
  \/ h_attempted # <<>>
  \/ all_job_links # <<>>
  \/ links_to_scrape # <<>>
  \/ links_to_update # <<>>
  \/ h_fetched # <<>>
  \/ h_run # NoRun

\* C13 (SpecStartup): when connect_to_mongodb reports failure the run ends
\* at startup: the orchestrator never enters the pipeline, no page is
\* discovered or loaded, no link is fetched, and the Store is neither read
\* nor written.
C13_NoWorkAfterFailedConnect ==
  /\ [](h_connect \in {"connection_failure", "other_error"} =>
          /\ pc \in {"connected", "returned", "raised"}
          /\ ~WorkDone)
  /\ [][(h_connect \in {"connection_failure", "other_error"}) =>
          (store' = store)]_vars

\* C13 witness: the connection failed and the run has ended at startup
\* over a Store that holds documents, with nothing done.
C13_Witness ==
  /\ h_connect = "connection_failure"
  /\ pc \in {"returned", "raised"}
  /\ \E id \in Ids : store[id].present
  /\ ~WorkDone

\* The identifiers scrape_dice_job gave a record for in this run.
FetchedOk == Range(h_fetched) \ (h_run.failed \ h_run.insertErr)

Unwritten == {id \in FetchedOk : ~store[id].present}

IsPrefix(s, t) == Len(s) <= Len(t) /\ s = SubSeq(t, 1, Len(s))

\* C17 (SpecStore): whatever insert_new_job and update_job_search_tag calls
\* are made, no searches array holds a token twice, and every call leaves
\* each document in place with its array as it was or extended at its end:
\* no token is ever removed.
C17_SearchesAppendOnly ==
  /\ [](\A id \in Ids : NoDup(store[id].searches))
  /\ [][\A id \in Ids :
          /\ store[id].present => store'[id].present
          /\ IsPrefix(store[id].searches, store'[id].searches)
          /\ Range(store[id].searches) \subseteq Range(store'[id].searches)]_vars

\* C17 witness: a record carries both tokens, and the call just made for it,
\* which did not raise, found its token there and changed nothing.
C17_Witness ==
  /\ pc = "store"
  /\ t_url # 0
  /\ Len(store[t_url].searches) = MaxTokens
  /\ t_ret = <<0>>
  /\ t_raised = <<FALSE>>

\* Both runs of SpecRace have ended.
RaceOver == pc = "race" /\ \A p \in Procs : r_pc[p] = "finished"

ProgramOver == pc \in {"done", "raised"}

\* C19 (SpecStartup): the searches are run one at a time in the order of
\* the list, and when run_multiple_searches has ended every search of the
\* list has been run.
C19_EverySearchRun ==
  /\ run \in 1..Len(search_urls)
  /\ ProgramOver => run = Len(search_urls)

\* C20 (SpecStartup): a run is ended at startup only when the Store could
\* not be reached; a run whose connection succeeded goes on to its
\* pipeline.
C20_OnlyUnreachableStoreIsFatal ==
  pc \in {"returned", "raised"} =>
    h_connect \in {"connection_failure", "other_error"}

\* No Store call of this run raised: not the read of the known
\* identifiers, no tag update, no insert.
NoStoreError ==
  /\ ~h_run.loadFailed
  /\ h_run.tagErr = {}
  /\ h_run.insertErr = {}

\* C21 (SpecFetch): when the run has ended and no Store call raised, every
\* collected identifier that has a document carries search_string in its
\* searches array, once.
C21_EveryRecordTagged ==
  (pc = "finished" /\ NoStoreError) =>
    \A id \in h_run.collected :
      store[id].present => Count(search_string, store[id].searches) = 1

\* C21 witness: the run tagged a record it found and inserted a record it
\* fetched; a third identifier, whose fetch failed, has no record.
C21_Witness ==
  /\ pc = "finished"
  /\ NoStoreError
  /\ Len(links_to_update) = 1
  /\ store[links_to_update[1]].searches = <<search_string>>
  /\ Len(links_to_scrape) = 2
  /\ Cardinality(h_run.failed) = 1
  /\ scraped_count = 1
  /\ \E id \in Range(links_to_scrape) :
       store[id].searches = <<search_string>>

\* C22 (SpecFetch): scrape_dice_job is never called for an identifier of
\* the snapshot, is called at most once for an identifier, and a call starts
\* only when the iteration of the call before it has ended.
C22_FetchOnlyUnknown ==
  pc \in {"tag", "fetch", "insert", "dup", "finished"} =>
    /\ Range(h_fetched) \cap existing_urls = {}
    /\ NoDup(h_fetched)
    /\ Range(h_fetched) \subseteq h_run.collected
    /\ pc \in {"insert", "dup"} => Len(h_fetched) = n
    /\ pc \in {"fetch", "finished"} => Len(h_fetched) = n - 1
    /\ pc = "tag" => h_fetched = <<>>

\* C22 witness: of three collected identifiers one was in the snapshot; the
\* other two were fetched, once each, and the known one was not.
C22_Witness ==
  /\ pc = "finished"
  /\ Cardinality(h_run.collected) = 3
  /\ Cardinality(existing_urls \cap h_run.collected) = 1
  /\ Len(h_fetched) = 2
  /\ Range(h_fetched) = h_run.collected \ existing_urls

\* The parameter names of a query string, in the order they appear: the
\* first token of every piece between the '&' separators.
ParamKeys(query) ==
  IF query = <<>> THEN <<>>
  ELSE LET pieces == Split(query, "&")
       IN [k \in DOMAIN pieces |->
             IF pieces[k] = <<>> THEN "" ELSE pieces[k][1]]

\* The parameter names build_dice_url is to emit for args, in the fixed
\* order: work mode, location, keyword.
KeysFor(args) ==
  (IF StrTruthy(args.workplace_type)
      /\ Lower(args.workplace_type.s) \in
           {<<"r", "e", "m", "o", "t", "e">>, <<"h", "y", "b", "r", "i", "d">>,
            <<"o", "n", "s", "i", "t", "e">>}
   THEN <<"filters.workplaceTypes">> ELSE <<>>)
  \o (IF StrTruthy(args.location) THEN <<"location">> ELSE <<>>)
  \o (IF StrTruthy(args.search_text) THEN <<"q">> ELSE <<>>)

\* C23 (SpecUrl): the search_string of a URL that build_dice_url built is
\* everything after the '?', its parameters are the given ones in the order
\* work mode, location, keyword whatever characters they hold, and two calls
\* that differ in the case of the work mode only give the same
\* search_string.
C23_FixedParameterOrder ==
  pc = "tagged" =>
    /\ u_tag[1] = SubSeq(u_url[1], 3, Len(u_url[1]))
    /\ ParamKeys(u_tag[1]) = KeysFor(u_args)
    /\ u_tag[1] = u_tag[2]

\* C23 witness: all three parameters are given, the text holds a '&', and
\* the other call spells the work mode in another case.
C23_Witness ==
  /\ pc = "tagged"
  /\ ParamKeys(u_tag[1]) = <<"filters.workplaceTypes", "location", "q">>
  /\ \E k \in DOMAIN u_args.search_text.s : u_args.search_text.s[k] = "&"
  /\ u_alt.workplace_type # u_args.workplace_type


\* The four phases every run goes through, in the order of lines 131-149.
FixedPhases == <<"discover", "collect", "snapshot", "plan">>

\* The two loops that follow them, either of which may have nothing to do.
LoopPhases == {<<>>, <<"tag">>, <<"fetch">>, <<"tag", "fetch">>}

\* C24: within one run the phases are entered in the order page discovery,
\* link collection, known-identifier snapshot, reconciliation, tag updates,
\* detail fetches, each at most once and none re-entered, and the first
\* detail fetch starts only after the last tag update.
C24_PhasesInOrder ==
  /\ \/ IsPrefix(h_phases, FixedPhases)
     \/ \E loops \in LoopPhases : h_phases = FixedPhases \o loops
  /\ (h_phases # <<>> /\ h_phases[Len(h_phases)] = "fetch")
        => j > Len(links_to_update)

C24_Witness ==
  /\ h_phases = FixedPhases \o <<"tag", "fetch">>
  /\ Len(links_to_update) >= 2
  /\ h_fetched # <<>>


\* C25 (SpecStartup): once connect_to_mongodb has connected, the orchestrator
\* holds the job collection and is at page discovery; a successful
\* connection does not end the run before discovery.
C25_ConnectedRunProceeds ==
  (h_connect = "ok" /\ pc \notin {"connect", "connected"})
    => (pc = "discover" /\ job_collection = PyCollection)


\* The collected identifiers that had a document when the run read (or
\* failed to read) the known identifiers, and whose page was fetched.
RefetchedKnown ==
  (h_run.stored \cap h_run.collected) \cap FetchedOk

HasToken(id) == search_string \in Range(store[id].searches)

\* No document is removed or written again: each stays in place with its
\* searches array as it was or extended at its end.
DocsOnlyTagged ==
  \A id \in Ids :
    store[id].present =>
      /\ store'[id].present
      /\ IsPrefix(store[id].searches, store'[id].searches)

\* When the read of the known identifiers failed, every collected
\* identifier is in links_to_scrape and none in links_to_update.
AllTreatedAsNew ==
  (Planned /\ h_run.loadFailed) =>
    /\ links_to_scrape = all_job_links
    /\ links_to_update = <<>>

NewlyInserted == {id \in Ids : store[id].present} \ h_run.stored

\* C27 (SpecRefetch): scraped_count is the number of documents this run has
\* inserted; a failed fetch, a failed insert and an identifier that had a
\* document already leave it as it was.
C27_CountsNewInserts ==
  Planned => scraped_count = Cardinality(NewlyInserted)


\* name_k.ext for base_filename = name.ext
Candidate(base, k) ==
  NumberedName(splitext(base).name, k, splitext(base).ext)

\* C28 (SpecFile): get_unique_filename returns a path that does not exist:
\* base_filename when it does not exist, else name_k.ext for the smallest
\* k >= 1 for which it does not exist; the loop has tested at most as many
\* names as there are files, and the set of files is never changed.
C28_UniqueFilename ==
  /\ [] (pc = "unique_returned" =>
           /\ ~Exists(f_ret)
           /\ IF ~Exists(f_base) THEN f_ret = f_base
              ELSE \E k \in 1..Cardinality(f_files) :
                     /\ f_ret = Candidate(f_base, k)
                     /\ \A m \in 1..(k - 1) : Exists(Candidate(f_base, m)))
  /\ [] (pc = "unique_loop" => f_counter <= Cardinality(f_files))
  /\ [][f_files' = f_files]_vars

C28_Witness ==
  /\ pc = "unique_returned"
  /\ f_ext # <<>>
  /\ f_ret = Candidate(f_base, MaxSuffix + 1)


\* A job that has a semantic score above 0, a skills score above 0 and a
\* matched-skills count.
FullyScored(job) ==
  /\ job.semantic_score_v2.has /\ job.semantic_score_v2.v > 0
  /\ job.skills_intersection_score.has /\ job.skills_intersection_score.v > 0
  /\ job.matched_skills_count.has

ScorerOver == pc \in {"score_done", "score_raised"}

\* A fully scored job is left alone: its dict and its document keep their
\* fields and no update is issued for it.
SkippedUntouched ==
  \A k \in DOMAIN h_loaded :
    FullyScored(h_loaded[k]) =>
      /\ s_jobs[k] = h_loaded[k]
      /\ s_docs[k] = h_loaded[k]
      /\ Count(k, h_writes) = 0

\* No job is written twice, and a semantic score above 0 stays as loaded.
WrittenOnceScoreKept ==
  \A k \in DOMAIN h_loaded :
    /\ Count(k, h_writes) <= 1
    /\ (h_loaded[k].semantic_score_v2.has
          /\ h_loaded[k].semantic_score_v2.v > 0) =>
         /\ s_jobs[k].semantic_score_v2 = h_loaded[k].semantic_score_v2
         /\ s_docs[k].semantic_score_v2 = h_loaded[k].semantic_score_v2

\* C29 (SpecScore): a fully scored job is skipped with its fields and its
\* document untouched; every other job is written at most once, a semantic
\* score above 0 is kept, and when the scoring of a job raised the loop
\* still goes through all the jobs after it.
C29_SkipKeepAndGoOn ==
  /\ SkippedUntouched
  /\ WrittenOnceScoreKept
  /\ (ScorerOver /\ h_scoreErr # {}) => pc = "score_done"

==========================================================================
